---- MODULE Spec2Model ----
(***************************************************************************)
(* PgvectorService (src/pgvector/pgvector_service.py): collection          *)
(* management and cross-collection cosine search over the two LangChain    *)
(* tables langchain_pg_collection and langchain_pg_embedding.              *)
(*                                                                         *)
(* The service drives langchain_community's PGVector.  What each PGVector  *)
(* call commits, in order, is modelled at its call site:                   *)
(*   PGVector(...)            creates the tables if they are missing, then *)
(*                            create_collection(): delete_collection()     *)
(*                            when pre_delete_collection, then             *)
(*                            CollectionStore.get_or_create(name);         *)
(*   PGVector.from_documents  embedding.embed_documents(texts) first, then *)
(*                            PGVector(...), then add_embeddings(): all    *)
(*                            rows in one commit;                          *)
(*   pgvector.delete_collection()  deletes the registry row, the embedding *)
(*                            rows go with it (ON DELETE CASCADE); a       *)
(*                            missing collection is only logged.           *)
(*                                                                         *)
(* Spec takes every call of the service as one step (the service is used   *)
(* by one synchronous caller).  SpecReaders takes every commit of a        *)
(* writing call as one step, and lets a reader's query (get_collections,   *)
(* the search) run between any two commits.                                *)
(***************************************************************************)
EXTENDS Integers, Sequences, FiniteSets, Bags, TLC

\* ---------------------------------------------------------------- bounds
MaxDocs == 2          \* longest docs list handed to update_collection

Names == {"A", "B"}
Texts == {"car", "sky"}
Queries == {"fox", "car"}
Ks == (0 - 1) .. 3
None == "None"

\* ---------------------------------------------------- embedding provider
\* A deterministic stub provider.  Every vector has squared norm 25, so the
\* cosine distance 1 - u.v/(|u||v|) is (25 - u.v)/25: distances and scores
\* are kept as integers, in units of 1/25.
Embed(t) ==
    CASE t = "fox" -> <<5, 0>>
      [] t = "car" -> <<4, 3>>
      [] t = "sky" -> <<4, 0 - 3>>

Dot(u, v) == u[1] * v[1] + u[2] * v[2]

Unit == Dot(Embed("fox"), Embed("fox"))

\* EmbeddingStore.embedding.cosine_distance(query_vector)
CosineDistance(u, v) == Unit - Dot(u, v)

\* 1 - result[2]
Score(distance) == Unit - distance

RECURSIVE SeqsUpTo(_, _)
SeqsUpTo(S, n) ==
    IF n = 0 THEN {<<>>}
    ELSE LET shorter == SeqsUpTo(S, n - 1)
         IN  shorter \cup {Append(s, x) : s \in {t \in shorter : Len(t) = n - 1}, x \in S}

DocLists == SeqsUpTo(Texts, MaxDocs)

Min(a, b) == IF a <= b THEN a ELSE b

VARIABLES
    connOk,   \* the database accepts connections
    db,       \* the database: do the tables exist, the registry, the embeddings
    pc,       \* SpecReaders: the writing call's position between its commits
    cur,      \* SpecReaders: the writing call in flight
    last      \* the call that returned last: arguments, store before, outcome

vars == <<connOk, db, pc, cur, last>>

\* ------------------------------------------------------------ the tables
\* db.collection: rows [uuid, name] of langchain_pg_collection.
\* db.embedding: rows [collection_id, document, embedding] of
\* langchain_pg_embedding; rows that differ only in their generated ids are
\* kept as a count.
Uuids(colls) == {c.uuid : c \in colls}

FreshUuid(used) == CHOOSE i \in 1 .. (Cardinality(used) + 1) : i \notin used

\* CollectionStore.get_by_name
GetByName(colls, name) == {c \in colls : c.name = name}

\* PGVector(...): create_tables_if_not_exists
CreateTables(s) == [s EXCEPT !.tables = TRUE]

\* PGVector.create_collection: CollectionStore.get_or_create
GetOrCreate(s, name) ==
    IF GetByName(s.collection, name) # {} THEN s
    ELSE [s EXCEPT !.collection =
              @ \cup {[uuid |-> FreshUuid(Uuids(s.collection)), name |-> name]}]

\* ON DELETE CASCADE of langchain_pg_embedding.collection_id
CascadeKeepsRows(rows, gone) == rows

CascadeDelete(rows, gone) ==
    [r \in {x \in BagToSet(rows) : x.collection_id \notin gone} |-> rows[r]]

\* PGVector.delete_collection: session.delete(collection), when there is one
DeleteByName(s, name) ==
    LET found == GetByName(s.collection, name)
    IN  [s EXCEPT !.collection = @ \ found,
                  !.embedding = CascadeDelete(@, Uuids(found))]

RECURSIVE InsertRows(_, _, _)
InsertRows(rows, uuid, docs) ==
    IF docs = <<>> THEN rows
    ELSE InsertRows(rows (+) SetToBag({[collection_id |-> uuid,
                                        document |-> Head(docs),
                                        embedding |-> Embed(Head(docs))]}),
                    uuid, Tail(docs))

\* PGVector.add_embeddings: one row for each text, all in one commit
AddEmbeddings(s, name, docs) ==
    LET collection == GetByName(s.collection, name)
    IN  [s EXCEPT !.embedding =
              InsertRows(@, (CHOOSE c \in collection : TRUE).uuid, docs)]

\* get_collections' query: row[0] of every row of the registry
RegistryUnreadable(colls) == {}

RegistryNames(colls) == {c.name : c \in colls}

\* get_collections, once connected: the except branch answers []
GetCollections(s) == IF s.tables THEN RegistryNames(s.collection) ELSE {}

\* update_collection: overwrite = collection_name in collections
NeverOverwrite(name, collections) == FALSE

Overwrite(name, collections) == name \in collections

\* ------------------------------------------------ the record of a call
NoCall == [op |-> "none", name |-> None, docs |-> <<>>, given |-> FALSE,
           q |-> None, k |-> 0, connected |-> TRUE, providerFailed |-> FALSE,
           overwrite |-> FALSE, mid |-> FALSE,
           pre |-> [tables |-> FALSE, collection |-> {}, embedding |-> EmptyBag],
           status |-> "none", err |-> None,
           colls |-> {}, results |-> <<>>, out |-> <<>>]

Returns(c) == [c EXCEPT !.status = "ok"]

Raises(c, err) == [c EXCEPT !.status = "raised", !.err = err]

Init ==
    /\ connOk = TRUE
    /\ db \in {[tables |-> t, collection |-> {}, embedding |-> EmptyBag] : t \in BOOLEAN}
    /\ pc = "idle"
    /\ cur = NoCall
    /\ last = NoCall

\* ------------------------------------------------------- the environment
\* The database goes away or comes back between two calls of the writer.
ConnectionChanges ==
    /\ pc = "idle"
    /\ connOk' = ~connOk
    /\ UNCHANGED <<db, pc, cur, last>>

\* --------------------------------------------------------- update_collection
\* The call as it begins: get_collections, then the overwrite it decides.
\* given = FALSE stands for docs = None.  The provider is asked only when a
\* connection was made and there is a text to embed.  A call that gets no
\* connection never looks at docs, and is recorded without them.
UpdateCall(name, docs, given, embedFails) ==
    [NoCall EXCEPT !.op = "update", !.name = name, !.given = given,
                   !.docs = IF connOk THEN docs ELSE <<>>,
                   !.connected = connOk, !.pre = db, !.mid = FALSE,
                   !.overwrite = connOk /\ given /\ Overwrite(name, GetCollections(db)),
                   !.providerFailed = connOk /\ given /\ embedFails /\ docs # <<>>]

\* The store while embedding.embed_documents(texts) runs: from_texts embeds
\* before PGVector(...) is constructed, so nothing is written yet.
StoreAfterPreDelete(s, name, overwrite) ==
    IF overwrite THEN DeleteByName(s, name) ELSE s

StoreWhileEmbedding(s, name, overwrite) == s

\* PGVector.create_collection with pre_delete_collection = overwrite
PreDelete(s, name, overwrite) == IF overwrite THEN DeleteByName(s, name) ELSE s

\* PGVector.from_documents once the texts are embedded
FromDocuments(s, name, docs, overwrite) ==
    AddEmbeddings(GetOrCreate(PreDelete(CreateTables(s), name, overwrite), name),
                  name, docs)

\* update_collection(docs, collection_name), the whole call
UpdateCollection(name, docs, given, embedFails) ==
    /\ pc = "idle"
    /\ given \/ (docs = <<>> /\ ~embedFails)
    /\ embedFails => docs # <<>>
    /\ LET c == UpdateCall(name, docs, given, embedFails)
       IN  IF ~c.connected
           THEN \* get_collections: engine.connect() raises
                /\ last' = Raises(c, "StoreUnavailable")
                /\ UNCHANGED db
           ELSE IF ~given
           THEN \* docs is None
                /\ last' = Returns(c)
                /\ UNCHANGED db
           ELSE IF c.providerFailed
           THEN /\ last' = Raises(c, "EmbeddingFailure")
                /\ db' = StoreWhileEmbedding(db, name, c.overwrite)
           ELSE /\ last' = Returns(c)
                /\ db' = FromDocuments(db, name, docs, c.overwrite)
    /\ UNCHANGED <<connOk, pc, cur>>

\* --------------------------------------------------------- delete_collection
DeleteCall(name) ==
    [NoCall EXCEPT !.op = "delete", !.name = name, !.connected = connOk, !.pre = db]

\* PGVector(...) then pgvector.delete_collection()
DeleteDone(s, name) == DeleteByName(GetOrCreate(CreateTables(s), name), name)

\* delete_collection(collection_name), the whole call
DeleteCollection(name) ==
    /\ pc = "idle"
    /\ LET c == DeleteCall(name)
       IN  IF ~c.connected
           THEN /\ last' = Raises(c, "StoreUnavailable")
                /\ UNCHANGED db
           ELSE /\ last' = Returns(c)
                /\ db' = DeleteDone(db, name)
    /\ UNCHANGED <<connOk, pc, cur>>

\* ------------------------------------------------------------ get_collections
\* get_collections() called from outside: one query
ListCollections ==
    /\ LET c == [NoCall EXCEPT !.op = "list", !.connected = connOk, !.pre = db,
                               !.mid = pc # "idle"]
       IN  last' = IF ~connOk
                   THEN \* engine.connect() is outside the try
                        Raises(c, "StoreUnavailable")
                   ELSE [Returns(c) EXCEPT !.colls = GetCollections(db)]
    /\ UNCHANGED <<connOk, db, pc, cur>>

\* ------------------------------------- custom_similarity_search_with_scores
Distance(r, qv) == CosineDistance(r.embedding, qv)

\* ORDER BY distance ASC: the rows that may come next
Farthest(rows, qv) ==
    {r \in BagToSet(rows) : \A o \in BagToSet(rows) : Distance(r, qv) >= Distance(o, qv)}

Nearest(rows, qv) ==
    {r \in BagToSet(rows) : \A o \in BagToSet(rows) : Distance(r, qv) <= Distance(o, qv)}

RECURSIVE OrderByLimit(_, _, _)
\* Every answer of ORDER BY distance ASC LIMIT k (k >= 0): the query names
\* no second key, so rows at the same distance come in any order.
OrderByLimit(rows, qv, k) ==
    IF k = 0 \/ BagToSet(rows) = {} THEN {<<>>}
    ELSE UNION {{<<[document |-> r.document, distance |-> Distance(r, qv)]>> \o rest :
                    rest \in OrderByLimit(rows (-) SetToBag({r}), qv, k - 1)} :
                r \in Nearest(rows, qv)}

\* docs = [(Document(page_content=result[0]), 1 - result[2]) ...]
Docs(results) == [i \in 1 .. Len(results) |->
                     <<results[i].document, Score(results[i].distance)>>]

\* A query that is never run (no vector, no connection, no table) never
\* uses k, and is recorded without it.
SearchCall(q, k, embedFails) ==
    [NoCall EXCEPT !.op = "search", !.q = q, !.pre = db,
                   !.k = IF embedFails \/ ~connOk \/ ~db.tables THEN 0 ELSE k,
                   !.connected = connOk, !.providerFailed = embedFails,
                   !.mid = pc # "idle"]

Search(q, k, embedFails) ==
    /\ UNCHANGED <<connOk, db, pc, cur>>
    /\ LET c == SearchCall(q, k, embedFails)
       IN  IF embedFails
           THEN \* get_vector: embed_query raises
                last' = Raises(c, "EmbeddingFailure")
           ELSE IF ~connOk
           THEN last' = Raises(c, "StoreUnavailable")
           ELSE IF ~db.tables
           THEN \* relation "langchain_pg_embedding" does not exist
                last' = Raises(c, "UndefinedTable")
           ELSE IF k < 0
           THEN \* PostgreSQL: LIMIT must not be negative
                last' = Raises(c, "InvalidLimit")
           ELSE \E results \in OrderByLimit(db.embedding, Embed(q), k) :
                last' = [Returns(c) EXCEPT !.results = results, !.out = Docs(results)]

Next ==
    \/ ConnectionChanges
    \/ \E name \in Names, docs \in DocLists, given \in BOOLEAN, embedFails \in BOOLEAN :
          UpdateCollection(name, docs, given, embedFails)
    \/ \E name \in Names : DeleteCollection(name)
    \/ ListCollections
    \/ \E q \in Queries, k \in Ks, embedFails \in BOOLEAN : Search(q, k, embedFails)

Spec == Init /\ [][Next]_vars

\* ------------------------------------------- the writing calls, by commits
Pending(c) == [c EXCEPT !.status = "pending"]

\* update_collection up to the first commit of PGVector(...)
BeginUpdate(name, docs, given, embedFails) ==
    /\ pc = "idle"
    /\ given \/ (docs = <<>> /\ ~embedFails)
    /\ embedFails => docs # <<>>
    /\ UNCHANGED connOk
    /\ LET c == UpdateCall(name, docs, given, embedFails)
       IN  IF ~c.connected
           THEN /\ last' = Raises(c, "StoreUnavailable")
                /\ UNCHANGED <<db, pc, cur>>
           ELSE IF ~given
           THEN /\ last' = Returns(c)
                /\ UNCHANGED <<db, pc, cur>>
           ELSE IF c.providerFailed
           THEN /\ last' = Raises(c, "EmbeddingFailure")
                /\ db' = StoreWhileEmbedding(db, name, c.overwrite)
                /\ UNCHANGED <<pc, cur>>
           ELSE /\ db' = CreateTables(db)
                /\ cur' = c
                /\ pc' = "create_collection"
                /\ last' = Pending(c)

\* create_collection: delete_collection() when pre_delete_collection
UpdatePreDelete ==
    /\ pc = "create_collection"
    /\ db' = PreDelete(db, cur.name, cur.overwrite)
    /\ pc' = "get_or_create"
    /\ last' = Pending(cur)
    /\ UNCHANGED <<connOk, cur>>

UpdateGetOrCreate ==
    /\ pc = "get_or_create"
    /\ db' = GetOrCreate(db, cur.name)
    /\ pc' = "add_embeddings"
    /\ last' = Pending(cur)
    /\ UNCHANGED <<connOk, cur>>

UpdateAddEmbeddings ==
    /\ pc = "add_embeddings"
    /\ db' = AddEmbeddings(db, cur.name, cur.docs)
    /\ pc' = "idle"
    /\ last' = Returns(cur)
    /\ cur' = NoCall
    /\ UNCHANGED connOk

\* delete_collection up to the first commit of PGVector(...)
BeginDelete(name) ==
    /\ pc = "idle"
    /\ UNCHANGED connOk
    /\ LET c == DeleteCall(name)
       IN  IF ~c.connected
           THEN /\ last' = Raises(c, "StoreUnavailable")
                /\ UNCHANGED <<db, pc, cur>>
           ELSE /\ db' = CreateTables(db)
                /\ cur' = c
                /\ pc' = "del_get_or_create"
                /\ last' = Pending(c)

DeleteGetOrCreate ==
    /\ pc = "del_get_or_create"
    /\ db' = GetOrCreate(db, cur.name)
    /\ pc' = "del_delete"
    /\ last' = Pending(cur)
    /\ UNCHANGED <<connOk, cur>>

DeleteDelete ==
    /\ pc = "del_delete"
    /\ db' = DeleteByName(db, cur.name)
    /\ pc' = "idle"
    /\ last' = Returns(cur)
    /\ cur' = NoCall
    /\ UNCHANGED connOk

NextReaders ==
    \/ ConnectionChanges
    \/ \E name \in Names, docs \in DocLists, given \in BOOLEAN, embedFails \in BOOLEAN :
          BeginUpdate(name, docs, given, embedFails)
    \/ UpdatePreDelete
    \/ UpdateGetOrCreate
    \/ UpdateAddEmbeddings
    \/ \E name \in Names : BeginDelete(name)
    \/ DeleteGetOrCreate
    \/ DeleteDelete
    \/ ListCollections
    \/ \E q \in Queries, k \in Ks, embedFails \in BOOLEAN : Search(q, k, embedFails)

SpecReaders == Init /\ [][NextReaders]_vars

\* The shape of the state; and in SpecReaders the commits of a writing call
\* add up to the whole call of Spec.
TypeOK ==
    /\ connOk \in BOOLEAN
    /\ db.tables \in BOOLEAN
    /\ \A c \in db.collection : c.name \in Names
    /\ \A r \in BagToSet(db.embedding) : r.document \in Texts
    /\ pc \in {"idle", "create_collection", "get_or_create", "add_embeddings",
               "del_get_or_create", "del_delete"}
    /\ (pc = "idle" /\ last.op \in {"update", "delete"} /\ last.status = "ok" /\ last.given)
          => db = IF last.op = "update"
                  THEN FromDocuments(last.pre, last.name, last.docs, last.overwrite)
                  ELSE DeleteDone(last.pre, last.name)

\* ================================================================ claims
\* The rows of a table that belong to the collections called name.
OwnedBy(s, name) ==
    [r \in {x \in BagToSet(s.embedding) :
               x.collection_id \in Uuids(GetByName(s.collection, name))}
       |-> s.embedding[r]]

\* The rows of a table that belong to none of the collections called name.
NotOwnedBy(s, name) ==
    [r \in {x \in BagToSet(s.embedding) :
               x.collection_id \notin Uuids(GetByName(s.collection, name))}
       |-> s.embedding[r]]

\* How many rows of a table hold the document d.
CountDoc(rows, d) ==
    BagCardinality([r \in {x \in BagToSet(rows) : x.document = d} |-> rows[r]])

\* How many entries of a list of documents are d.
CountIn(docs, d) == Cardinality({i \in 1 .. Len(docs) : docs[i] = d})

\* How many rows of a search's answer hold the document d.
CountResults(results, d) ==
    Cardinality({i \in 1 .. Len(results) : results[i].document = d})

Registered(s) == {c.name : c \in s.collection}

\* C1: update_collection(name, []) is a no-op: list_collections() answers
\* what it answered before the call and no embedding row is written or
\* removed.
C1_EmptyUpdateIsNoOp ==
    (last.op = "update" /\ last.connected /\ last.given /\ last.docs = <<>>)
        => /\ last.status = "ok"
           /\ GetCollections(db) = GetCollections(last.pre)
           /\ db.embedding = last.pre.embedding

\* C2: when the embedding provider fails during update_collection the
\* failure reaches the caller and the store is exactly what it was before the
\* call: no new row, and on the replace path the old rows are still there.
C2_EmbeddingFailureLeavesStore ==
    (last.op = "update" /\ last.providerFailed)
        => /\ last.status = "raised"
           /\ last.err = "EmbeddingFailure"
           /\ db = last.pre

\* The provider failed on the replace path of a collection that had rows.
C2_Witness ==
    /\ last.op = "update"
    /\ last.providerFailed
    /\ last.overwrite
    /\ BagCardinality(OwnedBy(last.pre, last.name)) = 2
    /\ BagCardinality(OwnedBy(db, last.name)) = 2

\* C3: a reader (get_collections or the search) that runs while the replace
\* path of update_collection is between two commits sees the store as it was
\* before the update or as it is after it: never the collection missing,
\* empty or half replaced.
C3_ReadersSeeOldOrNew ==
    (last.mid /\ last.status = "ok" /\ cur.op = "update" /\ cur.overwrite)
        => LET old == cur.pre
               new == FromDocuments(cur.pre, cur.name, cur.docs, TRUE)
           IN  /\ last.op = "list"
                     => last.colls \in {GetCollections(old), GetCollections(new)}
               /\ last.op = "search"
                     => last.results \in
                           (OrderByLimit(old.embedding, Embed(last.q), last.k)
                              \cup OrderByLimit(new.embedding, Embed(last.q), last.k))

\* C4: after update_collection(name, chunks_v2) returned on a name that was
\* registered, the rows owned by name are one row for each chunk of
\* chunks_v2 and nothing else, and the rows of the other collections are
\* the rows they had.
C4_ReplaceLeavesOnlyNewChunks ==
    (last.op = "update" /\ last.status = "ok" /\ last.given
        /\ last.name \in Registered(last.pre))
        => /\ \A d \in Texts :
                 CountDoc(OwnedBy(db, last.name), d) = CountIn(last.docs, d)
           /\ NotOwnedBy(db, last.name) = NotOwnedBy(last.pre, last.name)

\* A collection of two rows was replaced by one chunk of another text, next
\* to a second collection that has rows.
C4_Witness ==
    /\ last.op = "update" /\ last.status = "ok" /\ last.given
    /\ last.name \in Registered(last.pre)
    /\ BagCardinality(OwnedBy(last.pre, last.name)) = 2
    /\ Len(last.docs) = 1
    /\ CountDoc(OwnedBy(last.pre, last.name), last.docs[1]) = 0
    /\ BagCardinality(NotOwnedBy(db, last.name)) > 0

\* C5: after update_collection(name, chunks) returned with chunks not empty,
\* name is in what list_collections() answers.
C5_UpdatedNameIsListed ==
    (last.op = "update" /\ last.status = "ok" /\ last.given /\ last.docs # <<>>)
        => last.name \in GetCollections(db)

\* The update created a name that had been registered and deleted before:
\* the tables exist, the name is not registered.
C5_Witness ==
    /\ last.op = "update" /\ last.status = "ok" /\ last.given /\ last.docs # <<>>
    /\ last.pre.tables
    /\ last.name \notin Registered(last.pre)
    /\ last.name \in GetCollections(db)

\* C6: delete_collection(name) that reaches the store returns without raising
\* whether or not name is registered; after it name is not listed and every
\* embedding row belongs to a registered collection (none is left of the
\* deleted one).
C6_DeleteIsIdempotent ==
    (last.op = "delete" /\ last.connected)
        => /\ last.status = "ok"
           /\ last.name \notin GetCollections(db)
           /\ last.name \notin Registered(db)
           /\ \A r \in BagToSet(db.embedding) : r.collection_id \in Uuids(db.collection)
           /\ BagCardinality(db.embedding)
                 = BagCardinality(NotOwnedBy(last.pre, last.name))

\* delete_collection of a name that is not registered (a second delete in a
\* row) returned, with the rows of another collection in the store.
C6_Witness ==
    /\ last.op = "delete" /\ last.status = "ok"
    /\ last.pre.tables
    /\ last.name \notin Registered(last.pre)
    /\ BagCardinality(db.embedding) > 0

C8_NonPositiveKIsEmpty ==
    (last.op = "search" /\ last.connected /\ ~last.providerFailed
        /\ last.pre.tables /\ last.k <= 0)
        => /\ last.status = "ok"
           /\ last.out = <<>>

\* C9: list_collections() never raises: it answers the empty set when the
\* registry cannot be read or the store cannot be reached, and the registered
\* names otherwise.
C9_ListNeverRaises ==
    last.op = "list"
        => /\ last.status = "ok"
           /\ last.colls = IF last.connected /\ last.pre.tables
                           THEN Registered(last.pre) ELSE {}

\* C10: two searches with the same query and k over the same store answer
\* the same list, rows at the same distance included.
C10_SearchIsDeterministic ==
    [][(/\ last.op = "search" /\ last.status = "ok"
        /\ last'.op = "search" /\ last'.status = "ok"
        /\ last'.q = last.q /\ last'.k = last.k
        /\ db' = db)
          => last'.out = last.out]_vars

====
